---- MODULE Spec2Model ----
(***************************************************************************)
(* One-time-passcode login of src/main.py: the two handlers request_otp    *)
(* and verify_otp over the two collections "otp" and "authuser".           *)
(*                                                                         *)
(* A handler is a sequence of storage calls.  Each storage call is atomic  *)
(* (one pymongo operation); between two storage calls of one handler the   *)
(* handlers of other requests may run and the clock may advance.  Strings  *)
(* are sequences of one-character strings, so that lower(), strip() and    *)
(* the 06d formatting are computed rather than assumed.                    *)
(***************************************************************************)
EXTENDS Integers, Sequences, FiniteSets, TLC

(***************************************************************************)
(* Bounds of the model.                                                    *)
(***************************************************************************)
MaxOtps  == 2      \* OTP records issued in one behaviour
MaxTime  == 6      \* last clock value, in minutes
MaxSeed  == 500    \* FmtSpec draws every seed in 0..MaxSeed

(***************************************************************************)
(* Program constants.                                                      *)
(***************************************************************************)
OtpTtlMinutes    == 5        \* timedelta(minutes=5)
ExpiresInSeconds == 300      \* "expires_in_seconds": 300
MaxRandom        == 999999   \* random.randint(0, 999999)
CodeWidth        == 6        \* the 06d format

\* the request handlers that may run at the same time
Procs == {"h1", "h2"}

(***************************************************************************)
(* Strings.                                                                *)
(***************************************************************************)
UpperChars == <<"A","B","C","D","E","F","G","H","I","J","K","L","M",
                "N","O","P","Q","R","S","T","U","V","W","X","Y","Z">>
LowerChars == <<"a","b","c","d","e","f","g","h","i","j","k","l","m",
                "n","o","p","q","r","s","t","u","v","w","x","y","z">>
Whitespace == {" ", "\t", "\n", "\r", "\f"}
DigitChars == <<"0","1","2","3","4","5","6","7","8","9">>

\* str.lower() on one character
LowerChar(c) ==
    IF \E i \in 1..Len(UpperChars) : UpperChars[i] = c
    THEN LowerChars[CHOOSE i \in 1..Len(UpperChars) : UpperChars[i] = c]
    ELSE c

\* str.lower()
Lower(s) == [i \in 1..Len(s) |-> LowerChar(s[i])]

RECURSIVE LStrip(_)
LStrip(s) ==
    IF s # <<>> /\ Head(s) \in Whitespace THEN LStrip(Tail(s)) ELSE s

RECURSIVE RStrip(_)
RStrip(s) ==
    IF s # <<>> /\ s[Len(s)] \in Whitespace
    THEN RStrip(SubSeq(s, 1, Len(s) - 1))
    ELSE s

\* str.strip()
Strip(s) == RStrip(LStrip(s))

\* NormalizeEmail without lower()
NormalizeEmail_NoLower(raw) == Strip(raw)

\* payload.email.lower().strip()
NormalizeEmail(raw) == Strip(Lower(raw))

\* decimal digits of n >= 0, most significant first, no padding
RECURSIVE Digits(_)
Digits(n) ==
    IF n < 10 THEN <<DigitChars[n + 1]>>
    ELSE Digits(n \div 10) \o <<DigitChars[(n % 10) + 1]>>

RECURSIVE ZeroPad(_, _)
ZeroPad(s, w) == IF Len(s) >= w THEN s ELSE ZeroPad(<<"0">> \o s, w)

\* f"{n}": no padding
FormatCode_NoPad(n) == Digits(n)

\* f"{n:06d}" for n >= 0
FormatCode(n) == ZeroPad(Digits(n), CodeWidth)

\* f"demo-token-{email}"
DemoToken(email) == <<"demo-token-">> \o email

(***************************************************************************)
(* Inputs.                                                                 *)
(***************************************************************************)
\* one address in two raw forms: concurrent handlers are run on these
SameEmails == { <<"a","@","b">>, <<" ","A","@","B","\n">> }

\* with a second address: the handlers that run one at a time take these
RawEmails == SameEmails \cup { <<"c","@","d">> }

\* values random.randint may return, as drawn outside FmtSpec
Seeds == {42, 123456}

\* a code no request issues outside FmtSpec
WrongSeed == 7

RawCodes ==
    { FormatCode(n) : n \in Seeds \cup {WrongSeed} }
        \cup { <<" ">> \o FormatCode(42) \o <<"\n">>, Digits(42) }

\* spellings of a@b that differ from one another and from a@b in letter case
\* and in surrounding whitespace: the input of NormSpec
UnnormalizedEmails == { <<" ","A","@","B","\n">>, <<"A","@","b","\t">> }

\* a code as a client may send it, with whitespace around it
Padded(code) == <<" ">> \o code \o <<"\n">>

\* seeds of FmtSpec: every small value and the values around each width
FmtSeeds ==
    (0..MaxSeed) \cup {999, 1000, 9999, 10000, 99999, 100000, 123456,
                      999998, MaxRandom}

(***************************************************************************)
(* State.                                                                  *)
(***************************************************************************)
VARIABLES
    otp,        \* collection "otp": sequence of records, _id = index
    authuser,   \* collection "authuser": sequence of records, _id = index
    clock,      \* datetime.now(timezone.utc), in minutes
    pc,         \* position of each handler
    local,      \* local variables of each handler
    response,   \* the HTTP response returned by the last step, if any, with
                \* the normalized email and code of the call it answers
    consumed,   \* history: _ids of the OTP records that verify_otp calls
                \* returned success for since the last request_otp began
    overlap     \* history: some call began while another handler was running

vars == <<otp, authuser, clock, pc, local, response, consumed, overlap>>

\* an absent or None timestamp, and a present one
None == <<>>
Some(t) == <<t>>

NoLocal == [email |-> <<>>, code |-> <<>>, now |-> 0, id |-> 0]

NoCall == [email |-> <<>>, code |-> <<>>]

\* no handler returned in the last step
NoResponse ==
    [call |-> NoCall, status |-> 0, op |-> "none", detail |-> "", dev_otp |-> <<>>,
     expires_in_seconds |-> 0, token |-> <<>>, email |-> <<>>]

\* raise HTTPException(status_code=status, detail=detail)
HttpError(call, op, status, detail) ==
    [NoResponse EXCEPT !.call = call, !.status = status, !.op = op,
                       !.detail = detail]

Init ==
    /\ otp = <<>>
    /\ authuser = <<>>
    /\ clock = 0
    /\ pc = [p \in Procs |-> "idle"]
    /\ local = [p \in Procs |-> NoLocal]
    /\ response = NoResponse
    /\ consumed = {}
    /\ overlap = FALSE

(***************************************************************************)
(* Persistence gateway.                                                    *)
(***************************************************************************)
\* create_document(collection, data): stamps created_at / updated_at, inserts
create_document(coll, doc, now) ==
    Append(coll, [email      |-> doc.email,
                  code       |-> doc.code,
                  expires_at |-> doc.expires_at,
                  used       |-> doc.used,
                  created_at |-> now,
                  updated_at |-> now])

\* OtpMatches without the code condition
OtpMatches_NoCode(r, email, code, now) ==
    /\ r.email = email
    /\ r.used = FALSE
    /\ r.expires_at >= now

\* OtpMatches without the expires_at condition
OtpMatches_NoExpiry(r, email, code, now) ==
    /\ r.email = email
    /\ r.code = code
    /\ r.used = FALSE

\* the filter of db["otp"].find_one in verify_otp
OtpMatches(r, email, code, now) ==
    /\ r.email = email
    /\ r.code = code
    /\ r.used = FALSE
    /\ r.expires_at >= now

MatchingOtps(email, code, now) ==
    { i \in 1..Len(otp) : OtpMatches(otp[i], email, code, now) }

\* FindActiveOtp that takes the newest active record of the email and only
\* then compares its code
FindActiveOtp_NewestOfEmail(email, code, now) ==
    LET m == { i \in 1..Len(otp) :
                 /\ otp[i].email = email
                 /\ otp[i].used = FALSE
                 /\ otp[i].expires_at >= now }
        newest == { i \in m : \A j \in m : otp[j].created_at <= otp[i].created_at }
    IN  { i \in newest : otp[i].code = code }

\* FindActiveOtp sorting created_at ascending
FindActiveOtp_Oldest(email, code, now) ==
    LET m == MatchingOtps(email, code, now)
    IN  { i \in m : \A j \in m : otp[i].created_at <= otp[j].created_at }

\* find_one(..., sort=[("created_at", -1)]): the ids find_one may return;
\* the order among equal created_at is not determined
FindActiveOtp(email, code, now) ==
    LET m == MatchingOtps(email, code, now)
    IN  { i \in m : \A j \in m : otp[j].created_at <= otp[i].created_at }

\* db["authuser"] documents with this email, in storage order
UsersWithEmail(email) == { i \in 1..Len(authuser) : authuser[i].email = email }

\* the document find_one / update_one({"email": email}) acts on: the first match
FirstUser(email) ==
    CHOOSE i \in UsersWithEmail(email) : \A j \in UsersWithEmail(email) : i <= j

\* MarkOtpUsed as an update_many on the email and code of the record
MarkOtpUsed_AllMatching(id, now) ==
    [i \in 1..Len(otp) |->
        IF otp[i].email = otp[id].email /\ otp[i].code = otp[id].code
        THEN [otp[i] EXCEPT !.used = TRUE, !.updated_at = now]
        ELSE otp[i]]

\* MarkOtpUsed that flips used instead of setting it
MarkOtpUsed_Toggle(id, now) ==
    [otp EXCEPT ![id] = [@ EXCEPT !.used = ~@, !.updated_at = now]]

\* MarkOtpUsed that stamps updated_at and leaves used as it is
MarkOtpUsed_NoFlag(id, now) ==
    [otp EXCEPT ![id] = [@ EXCEPT !.updated_at = now]]

\* update_one({"_id": id}, {"$set": {"used": True, "updated_at": now}})
MarkOtpUsed(id, now) ==
    [otp EXCEPT ![id] = [@ EXCEPT !.used = TRUE, !.updated_at = now]]

\* UpsertUserVerified without upsert=True: an absent user is not created
UpsertUserVerified_NoUpsert(email, now) ==
    IF UsersWithEmail(email) # {}
    THEN [authuser EXCEPT ![FirstUser(email)] =
              [@ EXCEPT !.is_verified = TRUE,
                        !.last_login = Some(now),
                        !.updated_at = Some(now)]]
    ELSE authuser

\* update_one({"email": email}, {"$set": {...}}, upsert=True)
UpsertUserVerified(email, now) ==
    IF UsersWithEmail(email) # {}
    THEN [authuser EXCEPT ![FirstUser(email)] =
              [@ EXCEPT !.is_verified = TRUE,
                        !.last_login = Some(now),
                        !.updated_at = Some(now)]]
    ELSE Append(authuser, [email       |-> email,
                           is_verified |-> TRUE,
                           last_login  |-> Some(now),
                           created_at  |-> None,
                           updated_at  |-> Some(now)])

\* InsertUser with is_verified at the default of schemas.AuthUser
InsertUser_Verified(email, now) ==
    Append(authuser, [email       |-> email,
                      is_verified |-> TRUE,
                      last_login  |-> None,
                      created_at  |-> Some(now),
                      updated_at  |-> Some(now)])

\* db["authuser"].insert_one({...}) of request_otp
InsertUser(email, now) ==
    Append(authuser, [email       |-> email,
                      is_verified |-> FALSE,
                      last_login  |-> None,
                      created_at  |-> Some(now),
                      updated_at  |-> Some(now)])

\* a call begins on handler p: it overlaps when another handler is running
Began(p) == overlap' = (overlap \/ \E q \in Procs \ {p} : pc[q] # "idle")

(***************************************************************************)
(* request_otp.                                                            *)
(***************************************************************************)
\* lines 87-98: normalize, draw the code, compute expires_at, store the OTP
ReqStart(p, raw, n) ==
    /\ pc[p] = "idle"
    /\ Len(otp) < MaxOtps
    /\ LET email == NormalizeEmail(raw)
           code  == FormatCode(n)
           expires_at == clock + OtpTtlMinutes
       IN  /\ otp' = create_document(otp,
                        [email |-> email, code |-> code,
                         expires_at |-> expires_at, used |-> FALSE], clock)
           /\ local' = [local EXCEPT ![p] =
                           [NoLocal EXCEPT !.email = email, !.code = code]]
    /\ pc' = [pc EXCEPT ![p] = "req_find"]
    /\ response' = NoResponse
    /\ consumed' = {}
    /\ Began(p)
    /\ UNCHANGED <<authuser, clock>>

\* ReqResponse that also hands out a token for the email
ReqResponse_WithToken(p) ==
    [NoResponse EXCEPT !.call = [email |-> local[p].email, code |-> <<>>],
                       !.status = 200, !.op = "request",
                       !.detail = "OTP sent to your email",
                       !.dev_otp = local[p].code,
                       !.expires_in_seconds = ExpiresInSeconds,
                       !.token = DemoToken(local[p].email)]

\* the response of request_otp, lines 113-117
ReqResponse(p) ==
    [NoResponse EXCEPT !.call = [email |-> local[p].email, code |-> <<>>],
                       !.status = 200, !.op = "request",
                       !.detail = "OTP sent to your email",
                       !.dev_otp = local[p].code,
                       !.expires_in_seconds = ExpiresInSeconds]

\* ReqFindUserFound that sets the found user back to unverified
ReqFindUserFound_Reset(p) ==
    /\ pc[p] = "req_find"
    /\ UsersWithEmail(local[p].email) # {}
    /\ authuser' = [authuser EXCEPT ![FirstUser(local[p].email)] =
                        [@ EXCEPT !.is_verified = FALSE,
                                  !.updated_at = Some(clock)]]
    /\ pc' = [pc EXCEPT ![p] = "idle"]
    /\ response' = ReqResponse(p)
    /\ local' = [local EXCEPT ![p] = NoLocal]
    /\ UNCHANGED <<otp, clock, consumed, overlap>>

\* line 101 with a user found: nothing to insert, return
ReqFindUserFound(p) ==
    /\ pc[p] = "req_find"
    /\ UsersWithEmail(local[p].email) # {}
    /\ pc' = [pc EXCEPT ![p] = "idle"]
    /\ response' = ReqResponse(p)
    /\ local' = [local EXCEPT ![p] = NoLocal]
    /\ UNCHANGED <<otp, authuser, clock, consumed, overlap>>

\* ReqFindUserMissing without the look-up: the insert follows in any case
ReqFindUserMissing_Unchecked(p) ==
    /\ pc[p] = "req_find"
    /\ pc' = [pc EXCEPT ![p] = "req_insert"]
    /\ response' = NoResponse
    /\ UNCHANGED <<otp, authuser, clock, local, consumed, overlap>>

\* line 101 with no user found
ReqFindUserMissing(p) ==
    /\ pc[p] = "req_find"
    /\ UsersWithEmail(local[p].email) = {}
    /\ pc' = [pc EXCEPT ![p] = "req_insert"]
    /\ response' = NoResponse
    /\ UNCHANGED <<otp, authuser, clock, local, consumed, overlap>>

\* lines 103-117: insert the user, return
ReqInsertUser(p) ==
    /\ pc[p] = "req_insert"
    /\ authuser' = InsertUser(local[p].email, clock)
    /\ pc' = [pc EXCEPT ![p] = "idle"]
    /\ response' = ReqResponse(p)
    /\ local' = [local EXCEPT ![p] = NoLocal]
    /\ UNCHANGED <<otp, clock, consumed, overlap>>

(***************************************************************************)
(* verify_otp.                                                             *)
(***************************************************************************)
\* VerFindNone with a detail that tells an expired code from the other causes
VerFindNone_TellsExpired(p, raw, rawcode) ==
    /\ pc[p] = "idle"
    /\ FindActiveOtp(NormalizeEmail(raw), Strip(rawcode), clock) = {}
    /\ response' = HttpError([email |-> NormalizeEmail(raw), code |-> Strip(rawcode)],
                              "verify", 400,
                              IF \E i \in 1..Len(otp) :
                                     /\ otp[i].email = NormalizeEmail(raw)
                                     /\ otp[i].code = Strip(rawcode)
                                     /\ otp[i].expires_at < clock
                              THEN "Code expired"
                              ELSE "Invalid or expired code")
    /\ Began(p)
    /\ UNCHANGED <<otp, authuser, clock, pc, local, consumed>>

\* lines 125-141 with no active record: 400
VerFindNone(p, raw, rawcode) ==
    /\ pc[p] = "idle"
    /\ FindActiveOtp(NormalizeEmail(raw), Strip(rawcode), clock) = {}
    /\ response' = HttpError([email |-> NormalizeEmail(raw), code |-> Strip(rawcode)],
                              "verify", 400, "Invalid or expired code")
    /\ Began(p)
    /\ UNCHANGED <<otp, authuser, clock, pc, local, consumed>>

\* lines 125-141 with an active record
VerFindSome(p, raw, rawcode) ==
    /\ pc[p] = "idle"
    /\ \E id \in FindActiveOtp(NormalizeEmail(raw), Strip(rawcode), clock) :
           local' = [local EXCEPT ![p] =
                        [email |-> NormalizeEmail(raw), code |-> Strip(rawcode),
                         now |-> clock, id |-> id]]
    /\ pc' = [pc EXCEPT ![p] = "ver_mark"]
    /\ response' = NoResponse
    /\ Began(p)
    /\ UNCHANGED <<otp, authuser, clock, consumed, overlap>>

\* line 144
VerMarkUsed(p) ==
    /\ pc[p] = "ver_mark"
    /\ otp' = MarkOtpUsed(local[p].id, local[p].now)
    /\ pc' = [pc EXCEPT ![p] = "ver_upsert"]
    /\ response' = NoResponse
    /\ UNCHANGED <<authuser, clock, local, consumed, overlap>>

\* the response of verify_otp, lines 153-156
VerResponse(p) ==
    [NoResponse EXCEPT !.call = [email |-> local[p].email, code |-> local[p].code],
                       !.status = 200, !.op = "verify",
                       !.token = DemoToken(local[p].email),
                       !.email = local[p].email]

\* lines 147-156: upsert the user, issue the token, return
VerUpsert(p) ==
    /\ pc[p] = "ver_upsert"
    /\ authuser' = UpsertUserVerified(local[p].email, local[p].now)
    /\ response' = VerResponse(p)
    /\ pc' = [pc EXCEPT ![p] = "idle"]
    /\ consumed' = consumed \cup {local[p].id}
    /\ local' = [local EXCEPT ![p] = NoLocal]
    /\ UNCHANGED <<otp, clock, overlap>>

(***************************************************************************)
(* Storage failures: a storage call raises, the handler ends with a 500.   *)
(***************************************************************************)
\* the first storage call of a handler raises: nothing was written
StorageFailFirst(p, op) ==
    /\ pc[p] = "idle"
    /\ response' = HttpError(NoCall, op, 500, "Internal Server Error")
    /\ Began(p)
    /\ UNCHANGED <<otp, authuser, clock, pc, local, consumed>>

\* a later storage call raises: what the handler wrote before stays
StorageFailLater(p) ==
    /\ pc[p] # "idle"
    /\ response' =
           HttpError([email |-> local[p].email,
                      code  |-> IF pc[p] \in {"req_find", "req_insert"}
                                THEN <<>> ELSE local[p].code],
                     IF pc[p] \in {"req_find", "req_insert"} THEN "request" ELSE "verify",
                     500, "Internal Server Error")
    /\ pc' = [pc EXCEPT ![p] = "idle"]
    /\ local' = [local EXCEPT ![p] = NoLocal]
    /\ UNCHANGED <<otp, authuser, clock, consumed, overlap>>

(***************************************************************************)
(* The clock.                                                              *)
(***************************************************************************)
\* the instants at which the clock is read: 0 and every minute from the time
\* to live on, so that a record is seen younger than, exactly as old as and
\* older than its time to live
Instants == {0} \cup (OtpTtlMinutes..MaxTime)

Tick ==
    /\ \E t \in Instants :
           /\ t > clock
           /\ \A u \in Instants : u > clock => t <= u
           /\ clock' = t
    /\ response' = NoResponse
    /\ UNCHANGED <<otp, authuser, pc, local, consumed, overlap>>

(***************************************************************************)
(* Specifications.                                                         *)
(***************************************************************************)
AllIdle == \A q \in Procs : pc[q] = "idle"

\* a handler takes its next storage call
Continue ==
    \/ \E p \in Procs : ReqFindUserFound(p)
    \/ \E p \in Procs : ReqFindUserMissing(p)
    \/ \E p \in Procs : ReqInsertUser(p)
    \/ \E p \in Procs : VerMarkUsed(p)
    \/ \E p \in Procs : VerUpsert(p)

\* Spec: handlers run concurrently over reliable storage
Next ==
    \/ \E p \in Procs, raw \in SameEmails, n \in Seeds : ReqStart(p, raw, n)
    \/ \E p \in Procs, raw \in SameEmails, c \in RawCodes : VerFindNone(p, raw, c)
    \/ \E p \in Procs, raw \in SameEmails, c \in RawCodes : VerFindSome(p, raw, c)
    \/ Continue
    \/ Tick

Spec == Init /\ [][Next]_vars

\* SeqSpec: the calls are executed one at a time over reliable storage
SeqNext ==
    \/ \E p \in Procs, raw \in RawEmails, n \in Seeds :
           AllIdle /\ ReqStart(p, raw, n)
    \/ \E p \in Procs, raw \in RawEmails, c \in RawCodes :
           AllIdle /\ VerFindNone(p, raw, c)
    \/ \E p \in Procs, raw \in RawEmails, c \in RawCodes :
           AllIdle /\ VerFindSome(p, raw, c)
    \/ Continue
    \/ Tick

SeqSpec == Init /\ [][SeqNext]_vars

\* FaultSpec: calls executed one at a time, with storage calls that may raise
FaultNext ==
    \/ \E p \in Procs, raw \in SameEmails, n \in Seeds :
           AllIdle /\ ReqStart(p, raw, n)
    \/ \E p \in Procs, raw \in SameEmails, c \in RawCodes :
           AllIdle /\ VerFindNone(p, raw, c)
    \/ \E p \in Procs, raw \in SameEmails, c \in RawCodes :
           AllIdle /\ VerFindSome(p, raw, c)
    \/ Continue
    \/ Tick
    \/ \E p \in Procs, op \in {"request", "verify"} :
           AllIdle /\ StorageFailFirst(p, op)
    \/ \E p \in Procs : StorageFailLater(p)

FaultSpec == Init /\ [][FaultNext]_vars

\* FmtSpec: one request_otp call on the empty store, for every seed of FmtSeeds
FmtNext ==
    \/ \E p \in Procs, raw \in SameEmails, n \in FmtSeeds :
           otp = <<>> /\ ReqStart(p, raw, n)
    \/ \E p \in Procs : ReqFindUserMissing(p)
    \/ \E p \in Procs : ReqInsertUser(p)

FmtSpec == Init /\ [][FmtNext]_vars

\* NormSpec: calls executed one at a time, every call made with an email of
\* UnnormalizedEmails and every verify_otp with a padded code
NormNext ==
    \/ \E p \in Procs, raw \in UnnormalizedEmails, n \in Seeds :
           AllIdle /\ ReqStart(p, raw, n)
    \/ \E p \in Procs, raw \in UnnormalizedEmails, n \in Seeds \cup {WrongSeed} :
           AllIdle /\ VerFindNone(p, raw, Padded(FormatCode(n)))
    \/ \E p \in Procs, raw \in UnnormalizedEmails, n \in Seeds \cup {WrongSeed} :
           AllIdle /\ VerFindSome(p, raw, Padded(FormatCode(n)))
    \/ Continue
    \/ Tick

NormSpec == Init /\ [][NormNext]_vars

(***************************************************************************)
(* Vocabulary of the properties.                                           *)
(***************************************************************************)
\* handler p looks a record up in this step and finds one
Accepts(p) == pc[p] = "idle" /\ pc'[p] = "ver_mark"

\* a verify_otp call returned 400 in the step that led to this state
Rejected == response.op = "verify" /\ response.status = 400

\* a verify_otp call returned success in the step that led to this state
Verified == response.op = "verify" /\ response.status = 200

\* the time request_otp was called for record r: expires_at is that time + 5 min
IssuedAt(r) == r.expires_at - OtpTtlMinutes

\* the records issued for this email with this code
IssuedFor(email, code) ==
    { i \in 1..Len(otp) : otp[i].email = email /\ otp[i].code = code }

(***************************************************************************)
(* C1.  Calls executed one at a time (SeqSpec).                            *)
(***************************************************************************)
\* C1 as stated: once a verify_otp call has succeeded for an email and a
\* code, a following verify_otp call with the same email and code, with no
\* request_otp in between, finds no record (and so returns 400).
C1_SecondVerifyFails ==
    [][\A p \in Procs :
          Accepts(p) =>
              \A i \in consumed :
                  ~(otp[i].email = local'[p].email /\ otp[i].code = local'[p].code)]_vars

\* C1 as amended: such a following call never gets the record a call has
\* succeeded on; when it finds a record, that is another record issued for the
\* same email with the same code, unused and unexpired.  With no such record
\* left the call returns 400.
C1_ConsumedNeverAcceptedAgain ==
    [][\A p \in Procs :
          (Accepts(p) /\ \E i \in consumed :
                           /\ otp[i].email = local'[p].email
                           /\ otp[i].code = local'[p].code)
              => /\ local'[p].id \notin consumed
                 /\ local'[p].id \in IssuedFor(local'[p].email, local'[p].code)
                 /\ otp[local'[p].id].used = FALSE
                 /\ otp[local'[p].id].expires_at >= clock]_vars

\* a second verify_otp for a consumed email and code has just returned 400
C1_Witness ==
    /\ Rejected
    /\ \E i \in consumed :
           /\ otp[i].email = response.call.email
           /\ otp[i].code = response.call.code
           /\ otp[i].used

(***************************************************************************)
(* C2.  Expiry.                                                            *)
(***************************************************************************)
\* C2 as stated: no verify_otp call accepts a record 5 minutes or more after
\* the record was issued.
C2_FiveMinutesOrMoreFails ==
    [][\A p \in Procs :
          Accepts(p) => clock - IssuedAt(otp[local'[p].id]) < OtpTtlMinutes]_vars

\* C2 as amended: no verify_otp call accepts a record more than 5 minutes
\* after the record was issued.
C2_MoreThanFiveMinutesFails ==
    [][\A p \in Procs :
          Accepts(p) => clock - IssuedAt(otp[local'[p].id]) <= OtpTtlMinutes]_vars

\* a call has just returned 400 for the email and code of an unused record
\* issued more than 5 minutes ago
C2_Witness ==
    /\ Rejected
    /\ \E i \in IssuedFor(response.call.email, response.call.code) :
           /\ otp[i].used = FALSE
           /\ clock - IssuedAt(otp[i]) > OtpTtlMinutes

(***************************************************************************)
(* C3.  The user after a successful verification.                          *)
(***************************************************************************)
\* C3: in the state right after a verify_otp call returns success, a user
\* with the normalized email of the call exists that is verified and whose
\* last_login is at or after the time the call was made; also when no user
\* with that email existed before the call's upsert.
C3_VerifiedUserAfterSuccess ==
    [][\A p \in Procs :
          (pc[p] = "ver_upsert" /\ pc'[p] = "idle")
              => /\ response'.status = 200
                 /\ \E i \in 1..Len(authuser') :
                        /\ authuser'[i].email = local[p].email
                        /\ authuser'[i].is_verified
                        /\ authuser'[i].last_login # None
                        /\ authuser'[i].last_login[1] >= local[p].now]_vars

\* a call has just succeeded for an email that had no user before: the only
\* user with that email is the one the upsert created (it has no created_at)
C3_Witness ==
    /\ Verified
    /\ \E i \in 1..Len(authuser) :
           /\ authuser[i].email = response.email
           /\ authuser[i].created_at = None
           /\ authuser[i].is_verified

(***************************************************************************)
(* C4.  One user per email.                                                *)
(***************************************************************************)
\* an upsert of verify_otp has completed: only the upsert sets last_login
UpsertCompleted == \E i \in 1..Len(authuser) : authuser[i].last_login # None

\* C4: in every state reached after a verify_otp upsert has completed, the
\* authuser collection holds at most one record per normalized email.
C4_OneUserPerEmail ==
    UpsertCompleted =>
        \A i, j \in 1..Len(authuser) :
            authuser[i].email = authuser[j].email => i = j

(***************************************************************************)
(* C5.  All or nothing (FaultSpec).                                        *)
(***************************************************************************)
\* C5: whenever a verify_otp call that found a record ends, either it returns
\* success with the record marked used and the user verified, or it reports
\* failure and has changed neither the record nor the users.
C5_AllOrNothing ==
    [][\A p \in Procs :
          (pc[p] \in {"ver_mark", "ver_upsert"} /\ pc'[p] = "idle")
              => \/ /\ response'.status = 200
                    /\ otp'[local[p].id].used
                    /\ \E i \in 1..Len(authuser') :
                           /\ authuser'[i].email = local[p].email
                           /\ authuser'[i].is_verified
                 \/ /\ response'.status # 200
                    /\ otp'[local[p].id].used = FALSE
                    /\ authuser' = authuser]_vars

(***************************************************************************)
(* C6.  A wrong code.                                                      *)
(***************************************************************************)
\* C6: a verify_otp call is accepted only if a record was issued for its
\* normalized email with exactly its code, whatever other records the email
\* has; and a call that returns 400 changes no OTP record and no user.
C6_WrongCodeFailsAndChangesNothing ==
    [][/\ \A p \in Procs :
             Accepts(p) => IssuedFor(local'[p].email, local'[p].code) # {}
       /\ (response'.op = "verify" /\ response'.status = 400)
             => otp' = otp /\ authuser' = authuser]_vars

\* a call has just returned 400 for a code never issued for its email, while
\* the email has an unused, unexpired record with another code
C6_Witness ==
    /\ Rejected
    /\ IssuedFor(response.call.email, response.call.code) = {}
    /\ \E i \in 1..Len(otp) :
           /\ otp[i].email = response.call.email
           /\ otp[i].code # response.call.code
           /\ otp[i].used = FALSE
           /\ otp[i].expires_at >= clock

(***************************************************************************)
(* C7.  Older codes stay usable.                                           *)
(***************************************************************************)
\* C7: a verify_otp call returns 400 only if every record issued for its
\* email with its code is used or expired, whatever was requested or verified
\* after that record; and a record becomes used only through a call whose
\* email and code are the record's.
C7_OlderCodesStayVerifiable ==
    [][/\ (response'.op = "verify" /\ response'.status = 400)
             => \A i \in IssuedFor(response'.call.email, response'.call.code) :
                    otp[i].used \/ otp[i].expires_at < clock
       /\ \A i \in 1..Len(otp) :
             (otp[i].used = FALSE /\ otp'[i].used)
                 => \E p \in Procs :
                        /\ pc[p] = "ver_mark"
                        /\ local[p].id = i
                        /\ local[p].email = otp[i].email
                        /\ local[p].code = otp[i].code]_vars

\* an older record is accepted after a newer record of the same email with
\* another code has been used
C7_Witness ==
    \E p \in Procs : \E i, j \in 1..Len(otp) :
        /\ pc[p] = "ver_mark"
        /\ local[p].id = i
        /\ otp[j].email = otp[i].email
        /\ otp[j].code # otp[i].code
        /\ otp[i].created_at < otp[j].created_at
        /\ otp[j].used

(***************************************************************************)
(* C8.  Which record a call takes.                                         *)
(***************************************************************************)
\* the records a call for email, code may take now
Live(email, code) ==
    { i \in IssuedFor(email, code) :
        otp[i].used = FALSE /\ otp[i].expires_at >= clock }

\* C8: a verify_otp call is accepted exactly when a record with its
\* normalized email and trimmed code is unused and unexpired; the record it
\* takes is one of these, none of them was created later, and that record is
\* the one, and the only one, the call marks used.
C8_SucceedsIffLiveAndTakesNewest ==
    [][/\ \A p \in Procs :
             Accepts(p) =>
                 /\ local'[p].id \in Live(local'[p].email, local'[p].code)
                 /\ \A j \in Live(local'[p].email, local'[p].code) :
                        otp[j].created_at <= otp[local'[p].id].created_at
       /\ (response'.op = "verify" /\ response'.status = 400)
             => Live(response'.call.email, response'.call.code) = {}
       /\ \A p \in Procs :
             (pc[p] = "ver_mark" /\ pc'[p] = "ver_upsert")
                 => /\ otp'[local[p].id].used
                    /\ Len(otp') = Len(otp)
                    /\ \A j \in 1..Len(otp) : j # local[p].id => otp'[j] = otp[j]]_vars

\* a call has taken the newer of two unused, unexpired records with its
\* email and code
C8_Witness ==
    \E p \in Procs : \E j \in 1..Len(otp) :
        /\ pc[p] = "ver_mark"
        /\ j # local[p].id
        /\ otp[j].email = local[p].email
        /\ otp[j].code = local[p].code
        /\ otp[j].used = FALSE
        /\ otp[j].expires_at >= local[p].now
        /\ otp[j].created_at < otp[local[p].id].created_at

(***************************************************************************)
(* C9.  request_otp.                                                       *)
(***************************************************************************)
\* handler p returns from request_otp in this step
ReqReturns(p) == pc[p] \in {"req_find", "req_insert"} /\ pc'[p] = "idle"

\* C9: a request_otp call appends one OTP record, for its normalized email,
\* unused, expiring 5 minutes after the call, and changes the OTP collection
\* in no other way; when it returns a user with that email exists; a user it
\* creates is unverified; it returns the code of its record and 300.
C9_RequestAddsOneRecordAndEnsuresUser ==
    [][\A p \in Procs :
          /\ (pc[p] = "idle" /\ pc'[p] = "req_find")
                => /\ Len(otp') = Len(otp) + 1
                   /\ SubSeq(otp', 1, Len(otp)) = otp
                   /\ otp'[Len(otp')].email = local'[p].email
                   /\ otp'[Len(otp')].code = local'[p].code
                   /\ otp'[Len(otp')].used = FALSE
                   /\ otp'[Len(otp')].expires_at = clock + 5
                   /\ authuser' = authuser
          /\ (pc[p] \in {"req_find", "req_insert"} /\ pc'[p] # pc[p])
                => /\ otp' = otp
                   /\ pc'[p] # "idle" => local'[p] = local[p]
          /\ (pc[p] = "req_insert" /\ pc'[p] = "idle")
                => /\ Len(authuser') = Len(authuser) + 1
                   /\ SubSeq(authuser', 1, Len(authuser)) = authuser
                   /\ authuser'[Len(authuser')].email = local[p].email
                   /\ authuser'[Len(authuser')].is_verified = FALSE
          /\ (pc[p] = "req_find" /\ pc'[p] = "idle") => authuser' = authuser
          /\ ReqReturns(p)
                => /\ \E i \in 1..Len(authuser') : authuser'[i].email = local[p].email
                   /\ response'.status = 200
                   /\ response'.dev_otp = local[p].code
                   /\ response'.expires_in_seconds = 300]_vars

\* a request_otp call has just returned the code of a record stored at this
\* minute, having created the user of its email
C9_Witness ==
    /\ response.op = "request"
    /\ response.status = 200
    /\ \E i \in 1..Len(otp) :
           /\ otp[i].email = response.call.email
           /\ otp[i].code = response.dev_otp
           /\ otp[i].expires_at = clock + 5
    /\ \E i \in 1..Len(authuser) :
           /\ authuser[i].email = response.call.email
           /\ authuser[i].is_verified = FALSE
           /\ authuser[i].created_at = Some(clock)

(***************************************************************************)
(* C10.  The format of the code (FmtSpec).                                 *)
(***************************************************************************)
DigitSet == {"0", "1", "2", "3", "4", "5", "6", "7", "8", "9"}

\* the value of one decimal digit
DigitValue(d) == CHOOSE v \in 0..9 : DigitChars[v + 1] = d

\* the number a string of decimal digits denotes
RECURSIVE ToInt(_)
ToInt(s) ==
    IF s = <<>> THEN 0
    ELSE 10 * ToInt(SubSeq(s, 1, Len(s) - 1)) + DigitValue(s[Len(s)])

\* C10: for every seed n, the code request_otp stores is 6 characters long,
\* all decimal digits, and denotes n; the code it returns is the stored one.
C10_CodeIsSixDigitsOfSeed ==
    [][\A p \in Procs :
          /\ (pc[p] = "idle" /\ pc'[p] = "req_find")
                => \A raw \in SameEmails, n \in FmtSeeds :
                       ReqStart(p, raw, n)
                           => LET c == otp'[Len(otp')].code
                              IN  /\ Len(c) = 6
                                  /\ \A k \in 1..Len(c) : c[k] \in DigitSet
                                  /\ ToInt(c) = n
          /\ ReqReturns(p) => response'.dev_otp = otp[Len(otp)].code]_vars

\* the seed 42 has been stored and returned as "000042"
C10_Witness ==
    /\ response.op = "request"
    /\ response.status = 200
    /\ response.dev_otp = <<"0", "0", "0", "0", "4", "2">>
    /\ Len(otp) = 1
    /\ otp[1].code = <<"0", "0", "0", "0", "4", "2">>

(***************************************************************************)
(* C11.  One outcome for every failing verification.                       *)
(***************************************************************************)
\* what a failing verify_otp call returns, the bookkeeping field call apart
C11_FailureOutcome ==
    [NoResponse EXCEPT !.status = 400, !.op = "verify",
                       !.detail = "Invalid or expired code"]

\* C11: every verify_otp call that does not succeed returns one and the same
\* outcome, status 400 with the detail "Invalid or expired code" and no code,
\* token or email, whatever the stored records are: none for the email, none
\* with the code, only expired ones or only used ones.  The response being
\* this constant, two stores that differ in the cause give equal responses.
C11_SameOutcomeForEveryCause ==
    (response.op = "verify" /\ response.status # 200)
        => [response EXCEPT !.call = NoCall] = C11_FailureOutcome

\* a call has just failed while one record of its email and code is expired
\* and another one is used and not expired: two causes, one response
C11_Witness ==
    /\ Rejected
    /\ \E i, j \in IssuedFor(response.call.email, response.call.code) :
           /\ otp[i].used = FALSE
           /\ otp[i].expires_at < clock
           /\ otp[j].used
           /\ otp[j].expires_at >= clock

(***************************************************************************)
(* C12.  The life of an OTP record.                                        *)
(***************************************************************************)
\* C12: in every step, under any interleaving of the handlers, no OTP record
\* is removed; a record that is used stays used; a record changes only in the
\* update of a verify_otp call that selected it, and the change is used set to
\* TRUE (with the updated_at stamp of that update); a request_otp call leaves
\* every record there was as it is.
C12_OtpRecordsOnlyEverMarkedUsed ==
    [][/\ Len(otp') >= Len(otp)
       /\ \A i \in 1..Len(otp) :
              /\ otp[i].used => otp'[i].used
              /\ otp'[i] # otp[i] =>
                     \E p \in Procs :
                         /\ pc[p] = "ver_mark" /\ pc'[p] = "ver_upsert"
                         /\ local[p].id = i
                         /\ otp'[i] = [otp[i] EXCEPT !.used = TRUE,
                                                     !.updated_at = local[p].now]
       /\ (\E p \in Procs : pc[p] = "idle" /\ pc'[p] = "req_find")
              => SubSeq(otp', 1, Len(otp)) = otp]_vars

\* a request_otp call has stored its record next to a used one, which still
\* is as the verify_otp call left it
C12_Witness ==
    /\ \E p \in Procs : pc[p] = "req_find"
    /\ Len(otp) = 2
    /\ otp[1].used
    /\ otp[1].updated_at < otp[2].created_at

(***************************************************************************)
(* C13.  The session token.                                                *)
(***************************************************************************)
\* C13: a response carries a token only when it is the success response of a
\* verify_otp call, and every such response carries one; the email returned
\* with it is the email of the OTP record the call consumed, which is the
\* normalized email of the call, and the token is "demo-token-" followed by
\* that email.  No response to request_otp and no 400 carries a token.
C13_TokenOnlyOnSuccessBoundToEmail ==
    [][/\ response'.token # <<>> =>
              \E p \in Procs :
                  /\ pc[p] = "ver_upsert" /\ pc'[p] = "idle"
                  /\ response'.op = "verify" /\ response'.status = 200
                  /\ otp[local[p].id].used
                  /\ response'.email = otp[local[p].id].email
                  /\ response'.email = response'.call.email
                  /\ response'.token = <<"demo-token-">> \o otp[local[p].id].email
       /\ (response'.op = "verify" /\ response'.status = 200)
              => response'.token # <<>>
       /\ (response'.op = "request" \/ response'.status # 200)
              => response'.token = <<>> /\ response'.email = <<>>]_vars

\* a verify_otp call has just returned the token of a@b, the email of a used
\* record
C13_Witness ==
    /\ Verified
    /\ response.token = <<"demo-token-", "a", "@", "b">>
    /\ response.email = <<"a", "@", "b">>
    /\ \E i \in 1..Len(otp) : otp[i].used /\ otp[i].email = response.email

(***************************************************************************)
(* C14.  The check-then-insert of request_otp.                             *)
(***************************************************************************)
\* C14: as long as no call has begun while another call was running, no two
\* users have the same email; two users with one email arise only from calls
\* that interleave.  That they do arise, from two request_otp calls that both
\* look the user up before either inserts, is the state C14_Witness.
C14_OneUserPerEmailUnlessInterleaved ==
    ~overlap =>
        \A i, j \in 1..Len(authuser) :
            authuser[i].email = authuser[j].email => i = j

\* two request_otp calls for a@b have each inserted a user, and no
\* verify_otp call has touched either
C14_Witness ==
    /\ overlap
    /\ AllIdle
    /\ Len(authuser) = 2
    /\ \A i \in 1..2 :
           /\ authuser[i].email = <<"a", "@", "b">>
           /\ authuser[i].created_at # None
           /\ authuser[i].is_verified = FALSE
           /\ authuser[i].last_login = None

(***************************************************************************)
(* C15.  Concurrent verifications of one record.                           *)
(***************************************************************************)
\* C15: when a single record was issued for an email and a code, no
\* verify_otp call returns success on that record after another call has
\* returned success on it: one record authenticates at most one call, however
\* the handlers interleave.
C15_OneSuccessPerRecord ==
    [][\A p \in Procs :
          (/\ pc[p] = "ver_upsert" /\ pc'[p] = "idle"
           /\ response'.status = 200
           /\ IssuedFor(local[p].email, local[p].code) = {local[p].id})
              => local[p].id \notin consumed]_vars

(***************************************************************************)
(* C16.  What a successful verification leaves alone (SeqSpec).            *)
(***************************************************************************)
\* C16: of the steps of a verify_otp call that succeeds, the look-up changes
\* no record; the update marks the selected record used and leaves every
\* other OTP record as it is, those with the same email and code and those
\* of other emails included, and leaves the users alone; the upsert leaves
\* the OTP records alone, changes no user of another email and adds at most
\* one user, of the call's email.
C16_MarksOneRecordTouchesOneEmail ==
    [][\A p \in Procs :
          /\ Accepts(p) => otp' = otp /\ authuser' = authuser
          /\ (pc[p] = "ver_mark" /\ pc'[p] = "ver_upsert") =>
                 /\ Len(otp') = Len(otp)
                 /\ otp[local[p].id].used = FALSE
                 /\ otp'[local[p].id].used
                 /\ \A j \in 1..Len(otp) : j # local[p].id => otp'[j] = otp[j]
                 /\ authuser' = authuser
          /\ (pc[p] = "ver_upsert" /\ pc'[p] = "idle") =>
                 /\ response'.status = 200
                 /\ otp' = otp
                 /\ Len(authuser') \in {Len(authuser), Len(authuser) + 1}
                 /\ \A i \in 1..Len(authuser) :
                        authuser[i].email # local[p].email
                            => authuser'[i] = authuser[i]
                 /\ \A i \in (Len(authuser) + 1)..Len(authuser') :
                        authuser'[i].email = local[p].email]_vars

\* a verify_otp call has just succeeded and another unused, unexpired record
\* with its email and its code is still there
C16_Witness ==
    /\ Verified
    /\ \E i, j \in IssuedFor(response.call.email, response.call.code) :
           /\ otp[i].used
           /\ otp[j].used = FALSE
           /\ otp[j].expires_at >= clock

(***************************************************************************)
(* C17.  A verified user stays verified.                                   *)
(***************************************************************************)
\* handler p takes a step of request_otp
RequestStep(p) ==
    \/ pc[p] = "idle" /\ pc'[p] = "req_find"
    \/ pc[p] \in {"req_find", "req_insert"} /\ pc'[p] # pc[p]

\* C17: in every step, under any interleaving, no user is removed and a user
\* that is verified stays verified and keeps its email; a step of request_otp
\* leaves every user there was unchanged in all fields, and so does a
\* verify_otp call that returns 400.
C17_VerifiedStaysVerified ==
    [][/\ Len(authuser') >= Len(authuser)
       /\ \A i \in 1..Len(authuser) :
              /\ authuser'[i].email = authuser[i].email
              /\ authuser[i].is_verified => authuser'[i].is_verified
       /\ (\E p \in Procs : RequestStep(p))
              => SubSeq(authuser', 1, Len(authuser)) = authuser
       /\ (response'.op = "verify" /\ response'.status = 400)
              => authuser' = authuser]_vars

\* a request_otp call has just returned for an email whose user is verified
\* and has logged in
C17_Witness ==
    /\ response.op = "request"
    /\ response.status = 200
    /\ \E i \in 1..Len(authuser) :
           /\ authuser[i].email = response.call.email
           /\ authuser[i].is_verified
           /\ authuser[i].last_login # None

(***************************************************************************)
(* C18.  Normalization of email and code (NormSpec).                       *)
(***************************************************************************)
\* the lowercase-trimmed form of the emails of UnnormalizedEmails
C18_Normalized == <<"a", "@", "b">>

\* C18: with e any of the spellings " A@B\n" and "A@b\t" of a@b and " c\n"
\* a code c with whitespace around it: a request_otp(e) step is the step
\* request_otp(a@b) takes, a verify_otp(e, " c\n") step is the step
\* verify_otp(a@b, c) takes (same records read, same record selected, same
\* response), and verify_otp(e, " c\n") does not fail while an unused,
\* unexpired record of a@b with code c is stored, whichever spelling the
\* record was requested with.
C18_SpellingsActAsNormalized ==
    [][\A p \in Procs, raw \in UnnormalizedEmails :
          /\ \A n \in Seeds :
                 ReqStart(p, raw, n) =>
                     /\ ReqStart(p, C18_Normalized, n)
                     /\ otp'[Len(otp')].email = C18_Normalized
          /\ \A n \in Seeds \cup {WrongSeed} :
                 /\ VerFindSome(p, raw, Padded(FormatCode(n)))
                        => /\ VerFindSome(p, C18_Normalized, FormatCode(n))
                           /\ otp[local'[p].id].code = FormatCode(n)
                 /\ VerFindNone(p, raw, Padded(FormatCode(n)))
                        => VerFindNone(p, C18_Normalized, FormatCode(n))
                 /\ (\E i \in 1..Len(otp) :
                        /\ otp[i].email = C18_Normalized
                        /\ otp[i].code = FormatCode(n)
                        /\ otp[i].used = FALSE
                        /\ otp[i].expires_at >= clock)
                        => ~VerFindNone(p, raw, Padded(FormatCode(n)))]_vars

\* a verify_otp call made with a spelling of a@b and a padded code has just
\* succeeded on a record stored for a@b that is still within its time
C18_Witness ==
    /\ Verified
    /\ response.email = C18_Normalized
    /\ \E i \in 1..Len(otp) :
           /\ otp[i].email = C18_Normalized
           /\ otp[i].code = response.call.code
           /\ otp[i].used
           /\ otp[i].expires_at >= clock

====
